---- MODULE Spec2Model ----
(***************************************************************************)
(* Model of DurableObjectsPlugin (packages/durable-objects plugin):        *)
(* the reload gate (#contextPromise / #contextResolve), the constructor    *)
(* registry (#constructors), the bindings (#bindings) and the instance     *)
(* table (#objects), with getObject split at its two awaits.               *)
(***************************************************************************)
EXTENDS Naturals, Sequences, FiniteSets, TLC

VARIABLES
    processedObjects,   \* #processedObjects: Seq of [name, className, scriptPath]
    persist,            \* durableObjectsPersist option
    contextPromise,     \* #contextPromise: identity of the promise currently held
    contextResolve,     \* #contextResolve: identity of the promise it resolves
    resolved,           \* set of context promises that have been resolved
    constructors,       \* #constructors: Map objectName -> constructor
    bindings,           \* #bindings
    objects,            \* #objects: Map key -> statePromise (index into statePromises)
    statePromises,      \* every statePromise created by getObject (lines 165-178)
    calls,              \* every getObject call: its id, position and result
    storageCalls,       \* log of storage.storage(key, persist) invocations
    generation,         \* number of beforeReload/dispose calls so far
    okReloads,          \* number of reload calls that returned normally
    lastReload          \* outcome of the most recent reload call

vars == <<processedObjects, persist, contextPromise, contextResolve, resolved,
          constructors, bindings, objects, statePromises, calls, storageCalls,
          generation, okReloads, lastReload>>

----------------------------------------------------------------------------
(* Bounds of the model *)

MaxCalls == 2
MaxGenerations == 2
MaxReloads == 2

----------------------------------------------------------------------------
(* Values *)

Undefined == "undefined"

\* JavaScript truthiness of an exported value (line 228: if (constructor))
Truthy(v) == v \notin {Undefined, "null"}

\* Map.get
MapGet(m, k) == IF k \in DOMAIN m THEN m[k] ELSE Undefined

\* Map.set (the new entry wins over an older one under the same key)
MapSet(m, k, v) == (k :> v) @@ m

EmptyMap == <<>>

----------------------------------------------------------------------------
(* Configuration: the constructor, lines 126-144 *)

Cwd == "/cwd"
AbsolutePaths == {"/main.js", "/cwd/do.js"}

\* path.resolve(scriptPath): absolute paths are kept, relative ones are
\* resolved against the working directory
pathResolve(p) == IF p \in AbsolutePaths THEN p ELSE Cwd \o "/" \o p

\* One entry of Object.entries(durableObjects): a plain class name (isObject
\* FALSE) or { className, scriptPath? }
processOption(entry) ==
    LET className == entry.className
        scriptPath0 == IF entry.isObject THEN entry.scriptPath ELSE Undefined
        scriptPath == IF scriptPath0 # Undefined THEN pathResolve(scriptPath0)
                      ELSE scriptPath0
    IN [name |-> entry.name, className |-> className, scriptPath |-> scriptPath]

processOptions(durableObjects) ==
    [i \in 1..Len(durableObjects) |-> processOption(durableObjects[i])]

ClassNames == {"X", "Y"}

StrOpt(n, c) == [name |-> n, isObject |-> FALSE, className |-> c, scriptPath |-> Undefined]
ObjOpt(n, c, p) == [name |-> n, isObject |-> TRUE, className |-> c, scriptPath |-> p]

\* The option mappings the reload specification starts from: kinds A then B
\* (or B then A), each a plain class name or an object with or without path
OptionsOf(n) ==
    {StrOpt(n, c) : c \in ClassNames}
        \cup {ObjOpt(n, c, p) : c \in ClassNames, p \in {Undefined, "do.js", "/cwd/do.js"}}

AllOptions ==
    {<<a, b>> : a \in OptionsOf("A"), b \in OptionsOf("B")}
        \cup {<<b, a>> : a \in {StrOpt("A", "X")}, b \in {ObjOpt("B", "Y", "do.js")}}
        \cup {<<a>> : a \in OptionsOf("A")}

\* The option mapping of the concurrency specification
MainOptions == {<<StrOpt("A", "X"), ObjOpt("B", "Y", "do.js")>>}

----------------------------------------------------------------------------
(* Identifiers and keys: getObject, lines 154-156 *)

DurableObjectIds == {[objectName |-> "A", hex |-> "1"],
                     [objectName |-> "A", hex |-> "2"],
                     [objectName |-> "B", hex |-> "1"]}

\* Variant: the key is the kind alone, without the identifier
KeyOf_noHex(id) == id.objectName

\* Variant: the key is the identifier's string alone
KeyOf_noKind(id) == id.hex

\* `${objectName}:${id.toString()}`
KeyOf(id) == id.objectName \o ":" \o id.hex

----------------------------------------------------------------------------
(* Initial state: field initialisers (lines 117-124) and constructor *)

NoError == [code |-> "none", message |-> ""]

InitWith(optionSets) ==
    /\ \E o \in optionSets : processedObjects = processOptions(o)
    /\ persist = FALSE
    /\ contextPromise = 1
    /\ contextResolve = 1
    /\ resolved = {}
    /\ constructors = EmptyMap
    /\ bindings = "env0"
    /\ objects = EmptyMap
    /\ statePromises = <<>>
    /\ calls = <<>>
    /\ storageCalls = <<>>
    /\ generation = 0
    /\ okReloads = 0
    /\ lastReload = [called |-> FALSE, error |-> NoError,
                     mainScriptPath |-> Undefined, probes |-> <<>>,
                     exported |-> <<>>, newBindings |-> Undefined]

Init == InitWith(MainOptions)

----------------------------------------------------------------------------
(* getObject, lines 146-181 *)

\* A new call: it reads this.#contextPromise and suspends on it (line 151).
\* Even a resolved promise resumes the call only in a later step.
getObject_call(id) ==
    /\ Len(calls) < MaxCalls
    /\ calls' = Append(calls, [id |-> id,
                               pc |-> "awaitContext",
                               awaiting |-> contextPromise,
                               statePromise |-> 0,
                               startGeneration |-> generation,
                               lookupGeneration |-> 0,
                               started |-> FALSE])
    /\ UNCHANGED <<processedObjects, persist, contextPromise, contextResolve,
                   resolved, constructors, bindings, objects, statePromises,
                   storageCalls, generation, okReloads, lastReload>>

\* Variant: the await of line 151 is missing
gateReleased_noAwait(c) == TRUE

\* Line 151, await this.#contextPromise: the call continues once the promise
\* it read is resolved
gateReleased(c) == calls[c].awaiting \in resolved

\* Lines 157-158: this.#objects.get(key) found a statePromise
objectsHas(objs, key) == key \in DOMAIN objs

\* Variant: the statePromise is not put in the table before storage is awaited
objectsSet_dropped(objs, key, n) == objs

\* Line 179: this.#objects.set(key, statePromise)
objectsSet(objs, key, n) == MapSet(objs, key, n)

\* Lines 165-179: the async function runs up to its first await, so the call
\* to storage.storage(key, persist) and the objects.set are one step
newStatePromise(id, key) ==
    [id |-> id, key |-> key, state |-> "pending", error |-> "none",
     constructor |-> Undefined, bindings |-> Undefined,
     createdGeneration |-> generation, instanceGeneration |-> 0]

\* Lines 153-180: resumed after the gate, look the key up, reuse or create
getObject_resume(c) ==
    /\ c \in 1..Len(calls)
    /\ calls[c].pc = "awaitContext"
    /\ gateReleased(c)
    /\ LET id == calls[c].id
           key == KeyOf(id)
       IN IF objectsHas(objects, key)
          THEN /\ calls' = [calls EXCEPT ![c] =
                              [@ EXCEPT !.pc = "returned",
                                        !.statePromise = objects[key],
                                        !.lookupGeneration = generation]]
               /\ UNCHANGED <<objects, statePromises, storageCalls>>
          ELSE /\ statePromises' = Append(statePromises, newStatePromise(id, key))
               /\ storageCalls' = Append(storageCalls,
                                         [key |-> key, persist |-> persist,
                                          generation |-> generation])
               /\ objects' = objectsSet(objects, key, Len(statePromises) + 1)
               /\ calls' = [calls EXCEPT ![c] =
                              [@ EXCEPT !.pc = "returned",
                                        !.statePromise = Len(statePromises) + 1,
                                        !.lookupGeneration = generation,
                                        !.started = TRUE]]
    /\ UNCHANGED <<processedObjects, persist, contextPromise, contextResolve,
                   resolved, constructors, bindings, generation,
                   okReloads, lastReload>>

\* Lines 166-177 after storage.storage(...) fulfils: build the state, look the
\* constructor up in the registry as it is now, assert it, construct the
\* instance with the bindings as they are now
\* Line 172: this.#constructors.get(objectName), read when storage has arrived
constructorFor(objectName) == MapGet(constructors, objectName)

\* Variant: a construction waits for every construction started before it
storage_fulfil_serial(n) ==
    /\ n \in 1..Len(statePromises)
    /\ statePromises[n].state = "pending"
    /\ \A m \in 1..(n - 1) : statePromises[m].state # "pending"
    /\ LET constructor == constructorFor(statePromises[n].id.objectName)
       IN statePromises' = [statePromises EXCEPT ![n] =
            IF Truthy(constructor)
            THEN [@ EXCEPT !.state = "fulfilled",
                           !.constructor = constructor,
                           !.bindings = bindings,
                           !.instanceGeneration = generation]
            ELSE [@ EXCEPT !.state = "rejected", !.error = "assert"]]
    /\ UNCHANGED <<processedObjects, persist, contextPromise, contextResolve,
                   resolved, constructors, bindings, objects, calls,
                   storageCalls, generation, okReloads, lastReload>>

storage_fulfil(n) ==
    /\ n \in 1..Len(statePromises)
    /\ statePromises[n].state = "pending"
    /\ LET constructor == constructorFor(statePromises[n].id.objectName)
       IN statePromises' = [statePromises EXCEPT ![n] =
            IF Truthy(constructor)
            THEN [@ EXCEPT !.state = "fulfilled",
                           !.constructor = constructor,
                           !.bindings = bindings,
                           !.instanceGeneration = generation]
            ELSE [@ EXCEPT !.state = "rejected", !.error = "assert"]]
    /\ UNCHANGED <<processedObjects, persist, contextPromise, contextResolve,
                   resolved, constructors, bindings, objects, calls,
                   storageCalls, generation, okReloads, lastReload>>

\* storage.storage(...) rejects: the async function of lines 165-178 rejects
\* with that error; nothing else runs
storage_reject(n) ==
    /\ n \in 1..Len(statePromises)
    /\ statePromises[n].state = "pending"
    /\ statePromises' = [statePromises EXCEPT ![n] =
                            [@ EXCEPT !.state = "rejected", !.error = "storage"]]
    /\ UNCHANGED <<processedObjects, persist, contextPromise, contextResolve,
                   resolved, constructors, bindings, objects, calls,
                   storageCalls, generation, okReloads, lastReload>>

----------------------------------------------------------------------------
(* getNamespace, lines 183-189 *)

\* Builds a namespace around a factory that calls getObject when used
\* (getObject_call); reads and writes no field of the plugin
getNamespace(objectName) == UNCHANGED vars

----------------------------------------------------------------------------
(* beforeReload, lines 201-207, and dispose, lines 241-243 *)

\* Variant: beforeReload keeps the table
objectsCleared_kept == objects

\* Line 203: this.#objects.clear()
objectsCleared == EmptyMap

beforeReload ==
    /\ generation < MaxGenerations
    /\ objects' = objectsCleared
    /\ contextPromise' = contextPromise + 1
    /\ contextResolve' = contextPromise + 1
    /\ generation' = generation + 1
    /\ UNCHANGED <<processedObjects, persist, resolved, constructors, bindings,
                   statePromises, calls, storageCalls, okReloads, lastReload>>

\* Variant: dispose drops the instances but does not re-arm the gate
dispose_clearOnly ==
    /\ generation < MaxGenerations
    /\ objects' = objectsCleared
    /\ generation' = generation + 1
    /\ UNCHANGED <<processedObjects, persist, contextPromise, contextResolve,
                   resolved, constructors, bindings, statePromises, calls,
                   storageCalls, okReloads, lastReload>>

\* Variant: dispose releases the callers suspended on the gate it replaces
dispose_resolves ==
    /\ generation < MaxGenerations
    /\ objects' = objectsCleared
    /\ resolved' = resolved \cup {contextResolve}
    /\ contextPromise' = contextPromise + 1
    /\ contextResolve' = contextPromise + 1
    /\ generation' = generation + 1
    /\ UNCHANGED <<processedObjects, persist, constructors, bindings,
                   statePromises, calls, storageCalls, okReloads, lastReload>>

\* Lines 241-243: return this.beforeReload()
dispose == beforeReload

----------------------------------------------------------------------------
(* reload, lines 209-239 *)

scriptNotFound(resolvedScriptPath, name) ==
    [code |-> "ERR_SCRIPT_NOT_FOUND",
     message |-> "Script " \o resolvedScriptPath \o " for Durable Object "
                   \o name \o " not found"]

classNotFound(className, name) ==
    [code |-> "ERR_CLASS_NOT_FOUND",
     message |-> "Class " \o className \o " for Durable Object "
                   \o name \o " not found"]

\* Variant: the main script takes precedence over an explicit scriptPath
resolveScriptPath_mainFirst(scriptPath, mainScriptPath) ==
    IF mainScriptPath # Undefined THEN mainScriptPath ELSE scriptPath

\* Line 216: scriptPath ?? mainScriptPath
resolveScriptPath(scriptPath, mainScriptPath) ==
    IF scriptPath # Undefined THEN scriptPath ELSE mainScriptPath

\* Line 214: this.#constructors.clear()
constructorsCleared == EmptyMap

\* The loop of lines 215-236 from entry i on, ctors being the registry so far
RECURSIVE reloadLoop(_, _, _, _, _)
reloadLoop(objs, i, ctors, moduleExports, mainScriptPath) ==
    IF i > Len(objs)
    THEN [constructors |-> ctors, error |-> NoError]
    ELSE LET name == objs[i].name
             className == objs[i].className
             scriptPath == objs[i].scriptPath
             resolvedScriptPath == resolveScriptPath(scriptPath, mainScriptPath)
             found == /\ resolvedScriptPath # Undefined
                      /\ resolvedScriptPath \in DOMAIN moduleExports
         IN IF ~found
            THEN [constructors |-> ctors,
                  error |-> scriptNotFound(resolvedScriptPath, name)]
            ELSE LET constructor == MapGet(moduleExports[resolvedScriptPath], className)
                 IN IF Truthy(constructor)
                    THEN reloadLoop(objs, i + 1, MapSet(ctors, name, constructor),
                                    moduleExports, mainScriptPath)
                    ELSE [constructors |-> ctors,
                          error |-> classNotFound(className, name)]

\* Variant: the gate is opened before the configured kinds are validated
contextResolved_always(error) == resolved \cup {contextResolve}

\* Line 238, reached only when nothing was thrown: this.#contextResolve?.()
contextResolved(error) ==
    IF error = NoError THEN resolved \cup {contextResolve} ELSE resolved

\* Variant: a reload that returns normally keeps the bindings it found
bindingsAfter_kept(error, newBindings) == bindings

\* Line 237, reached only when nothing was thrown: this.#bindings = bindings
bindingsAfter(error, newBindings) ==
    IF error = NoError THEN newBindings ELSE bindings

\* What the build holds for one configured kind, read off the arguments of
\* reload: is its script there, and does the script export a class under
\* className. Recorded with the outcome of the call.
Probe(o, moduleExports, mainScriptPath) ==
    LET path == IF o.scriptPath = Undefined THEN mainScriptPath ELSE o.scriptPath
    IN IF path = Undefined \/ path \notin DOMAIN moduleExports
       THEN "no script"
       ELSE IF o.className \in DOMAIN moduleExports[path]
                 /\ moduleExports[path][o.className] \notin {Undefined, "null"}
            THEN "class"
            ELSE "no class"

\* The value the build holds for one configured kind: what its script
\* (lines 216-217) exports under className (line 227), undefined when the
\* script is not in the build. Recorded with the outcome of the call.
Exported(o, moduleExports, mainScriptPath) ==
    LET path == IF o.scriptPath = Undefined THEN mainScriptPath ELSE o.scriptPath
    IN IF path = Undefined \/ path \notin DOMAIN moduleExports
       THEN Undefined
       ELSE IF o.className \in DOMAIN moduleExports[path]
            THEN moduleExports[path][o.className]
            ELSE Undefined

\* Variant: reload also empties the instance table
reload_clearsObjects(moduleExports, newBindings, mainScriptPath) ==
    LET r == reloadLoop(processedObjects, 1, constructorsCleared,
                        moduleExports, mainScriptPath)
    IN /\ okReloads < MaxReloads
       /\ constructors' = r.constructors
       /\ bindings' = bindingsAfter(r.error, newBindings)
       /\ resolved' = contextResolved(r.error)
       /\ okReloads' = IF r.error = NoError THEN okReloads + 1 ELSE okReloads
       /\ lastReload' = [called |-> TRUE, error |-> r.error,
                         mainScriptPath |-> mainScriptPath,
                         probes |-> [i \in DOMAIN processedObjects |->
                                       Probe(processedObjects[i], moduleExports,
                                             mainScriptPath)],
                         exported |-> [i \in DOMAIN processedObjects |->
                                         Exported(processedObjects[i],
                                                  moduleExports, mainScriptPath)],
                         newBindings |-> newBindings]
       /\ objects' = EmptyMap
       /\ UNCHANGED <<processedObjects, persist, contextPromise, contextResolve,
                      statePromises, calls, storageCalls, generation>>

reload(moduleExports, newBindings, mainScriptPath) ==
    LET r == reloadLoop(processedObjects, 1, constructorsCleared,
                        moduleExports, mainScriptPath)
    IN /\ okReloads < MaxReloads
       /\ constructors' = r.constructors
       /\ bindings' = bindingsAfter(r.error, newBindings)
       /\ resolved' = contextResolved(r.error)
       /\ okReloads' = IF r.error = NoError THEN okReloads + 1 ELSE okReloads
       /\ lastReload' = [called |-> TRUE, error |-> r.error,
                         mainScriptPath |-> mainScriptPath,
                         probes |-> [i \in DOMAIN processedObjects |->
                                       Probe(processedObjects[i], moduleExports,
                                             mainScriptPath)],
                         exported |-> [i \in DOMAIN processedObjects |->
                                         Exported(processedObjects[i],
                                                  moduleExports, mainScriptPath)],
                         newBindings |-> newBindings]
       /\ UNCHANGED <<processedObjects, persist, contextPromise, contextResolve,
                      objects, statePromises, calls, storageCalls, generation>>

----------------------------------------------------------------------------
(* Inputs of reload *)

Bindings == {"env1", "env2"}

\* The builds the concurrency specification reloads with: the main script
\* exports X (for kind A), /cwd/do.js exports Y (for kind B)
ExportsOf(x, y) == [n \in ClassNames |-> IF n = "X" THEN x ELSE y]

ModulesOf(S, x, y) ==
    [p \in S |-> IF p = "/main.js" THEN ExportsOf(x, Undefined)
                 ELSE ExportsOf(Undefined, y)]

BothScripts == {"/main.js", "/cwd/do.js"}

MainReloadInputs ==
    { \* two complete builds
      [moduleExports |-> ModulesOf(BothScripts, "C1", "D1"),
       bindings |-> "env1", mainScriptPath |-> "/main.js"],
      [moduleExports |-> ModulesOf(BothScripts, "C2", "D2"),
       bindings |-> "env2", mainScriptPath |-> "/main.js"],
      \* /cwd/do.js no longer exports Y
      [moduleExports |-> ModulesOf(BothScripts, "C2", Undefined),
       bindings |-> "env2", mainScriptPath |-> "/main.js"],
      \* the main script is missing from the build
      [moduleExports |-> ModulesOf({"/cwd/do.js"}, "C2", "D2"),
       bindings |-> "env2", mainScriptPath |-> "/main.js"] }

----------------------------------------------------------------------------
(* The concurrency specification *)

Next ==
    \/ \E id \in DurableObjectIds : getObject_call(id)
    \/ \E c \in 1..MaxCalls : getObject_resume(c)
    \/ \E n \in 1..MaxCalls : storage_fulfil(n)
    \/ \E n \in 1..MaxCalls : storage_reject(n)
    \/ \E o \in {"A", "B"} : getNamespace(o)
    \/ beforeReload
    \/ dispose
    \/ \E inp \in MainReloadInputs :
          reload(inp.moduleExports, inp.bindings, inp.mainScriptPath)

Spec == Init /\ [][Next]_vars

----------------------------------------------------------------------------
(* The reload specification: every configuration, every build *)

ScriptPaths == {"/main.js", "/cwd/do.js"}

\* What a script may export: under X nothing, null or one of two classes,
\* under Y nothing or a class
ScriptExports ==
    {ExportsOf(x, y) : x \in {Undefined, "null", "C1", "C2"}, y \in {Undefined, "D1"}}

\* ModuleExports: Map from script path to that script's exports
ReloadModuleExports ==
    UNION {[S -> ScriptExports] : S \in SUBSET ScriptPaths}

ReloadMainScriptPaths == {Undefined, "/main.js"}

InitReload == InitWith(AllOptions)

NextReload ==
    \/ \E me \in ReloadModuleExports, b \in Bindings, m \in ReloadMainScriptPaths :
          reload(me, b, m)
    \/ beforeReload
    \/ dispose

SpecReload == InitReload /\ [][NextReload]_vars

----------------------------------------------------------------------------
(* Properties *)

Calls == 1..Len(calls)
ReturnedCalls == {c \in Calls : calls[c].pc = "returned"}
SuspendedCalls == {c \in Calls : calls[c].pc = "awaitContext"}
StatePromises == 1..Len(statePromises)
Fulfilled == {n \in StatePromises : statePromises[n].state = "fulfilled"}

\* storage.storage invocations for a key within one generation
StorageCallsFor(key, g) ==
    {i \in 1..Len(storageCalls) :
        storageCalls[i].key = key /\ storageCalls[i].generation = g}

\* A step of the concurrency specification in which reload threw
FailedReloadStep ==
    \E inp \in MainReloadInputs :
        /\ reload(inp.moduleExports, inp.bindings, inp.mainScriptPath)
        /\ lastReload'.error.code # "none"

\* C1: getObject calls with the same identifier that look the table up within
\* one generation all return the same statePromise, and storage.storage was
\* invoked exactly once for that key in that generation.
C1_OneConstructionPerGeneration ==
    \A c1 \in ReturnedCalls, c2 \in ReturnedCalls :
        (/\ calls[c1].id = calls[c2].id
         /\ calls[c1].lookupGeneration = calls[c2].lookupGeneration)
        => /\ calls[c1].statePromise = calls[c2].statePromise
           /\ Cardinality(StorageCallsFor(KeyOf(calls[c1].id),
                                          calls[c1].lookupGeneration)) = 1

\* Two calls for one identifier in one generation, the second one joining the
\* construction of the first, which has completed
C1_Witness ==
    \E c1 \in ReturnedCalls, c2 \in ReturnedCalls :
        /\ c1 # c2
        /\ calls[c1].id = calls[c2].id
        /\ calls[c1].lookupGeneration = calls[c2].lookupGeneration
        /\ calls[c1].started /\ ~calls[c2].started
        /\ calls[c1].statePromise \in Fulfilled

\* C2: for each identifier there are never two distinct instances that were
\* both constructed after the most recent beforeReload/dispose.
C2_AtMostOneLiveInstance ==
    \A n1 \in Fulfilled, n2 \in Fulfilled :
        (/\ statePromises[n1].id = statePromises[n2].id
         /\ statePromises[n1].instanceGeneration = generation
         /\ statePromises[n2].instanceGeneration = generation)
        => n1 = n2

\* C3: before any reload has succeeded every getObject call is still suspended
\* on the gate, storage was never asked for and nothing is being constructed.
C3_NothingBeforeFirstReload ==
    okReloads = 0 =>
        /\ \A c \in Calls : calls[c].pc = "awaitContext"
        /\ storageCalls = <<>>
        /\ statePromises = <<>>

\* A call is suspended, a reload has been tried and has failed, none succeeded
C3_Witness ==
    /\ okReloads = 0
    /\ SuspendedCalls # {}
    /\ lastReload.called

\* C4: a successful reload releases every getObject call that is suspended on
\* the gate at that moment.
C4_ReloadReleasesAllSuspended ==
    [][okReloads' = okReloads + 1 =>
          \A c \in SuspendedCalls : calls[c].awaiting \in resolved']_vars

\* C5: a call started after a beforeReload never returns a statePromise made
\* before that beforeReload: what it returns was created, and its storage asked
\* for, in the generation the call started in or a later one.
C5_FreshAfterBeforeReload ==
    \A c \in ReturnedCalls :
        LET n == calls[c].statePromise
        IN /\ statePromises[n].createdGeneration >= calls[c].startGeneration
           /\ storageCalls[n].key = KeyOf(calls[c].id)
           /\ storageCalls[n].generation >= calls[c].startGeneration

\* An identifier served in an earlier generation is requested again after
\* beforeReload and gets another statePromise
C5_Witness ==
    \E c \in ReturnedCalls : \E n \in Fulfilled :
        /\ calls[c].startGeneration >= 1
        /\ statePromises[n].id = calls[c].id
        /\ statePromises[n].createdGeneration < calls[c].startGeneration
        /\ calls[c].statePromise # n

\* C6: no call that gets past the table lookup receives a statePromise that
\* has already failed on storage (a failed construction is removed from the
\* table, so the call starts a new one).
C6_FailedConstructionRetried ==
    [][\A c \in SuspendedCalls :
          calls'[c].pc = "returned"
          => statePromises'[calls'[c].statePromise].error # "storage"]_vars

\* C7: reload throws for the first configured kind, in configuration order,
\* whose script or class is missing: ERR_SCRIPT_NOT_FOUND naming the kind and
\* the resolved path when the path is undefined or not in moduleExports,
\* ERR_CLASS_NOT_FOUND naming the kind and the class when the script is there
\* without the class; it returns normally iff no kind misses either.
C7_ReloadClassifies ==
    lastReload.called =>
        LET probes == lastReload.probes
            failing == {i \in DOMAIN probes : probes[i] # "class"}
        IN IF failing = {}
           THEN lastReload.error.code = "none"
           ELSE LET i == CHOOSE j \in failing : \A k \in failing : j <= k
                    o == processedObjects[i]
                    path == IF o.scriptPath = Undefined
                            THEN lastReload.mainScriptPath ELSE o.scriptPath
                IN IF probes[i] = "no script"
                   THEN lastReload.error =
                          [code |-> "ERR_SCRIPT_NOT_FOUND",
                           message |-> "Script " \o path \o " for Durable Object "
                                         \o o.name \o " not found"]
                   ELSE lastReload.error =
                          [code |-> "ERR_CLASS_NOT_FOUND",
                           message |-> "Class " \o o.className
                                         \o " for Durable Object " \o o.name
                                         \o " not found"]

\* The first kind misses its class and the second its script: the error is
\* the first kind's
C7_Witness ==
    /\ lastReload.called
    /\ lastReload.probes = <<"no class", "no script">>
    /\ lastReload.error.code = "ERR_CLASS_NOT_FOUND"

\* C8: a reload that throws leaves the gate as it was, so a closed gate stays
\* closed; a call gets past the gate only when the promise it awaits is
\* resolved, and a promise is resolved only by a reload that returns normally.
C8_FailedReloadKeepsGateClosed ==
    /\ [][FailedReloadStep =>
            /\ resolved' = resolved
            /\ contextPromise' = contextPromise
            /\ contextResolve' = contextResolve
            /\ \A c \in SuspendedCalls : calls'[c].pc = "awaitContext"]_vars
    /\ [][\A c \in SuspendedCalls :
            calls'[c].pc = "returned" => calls[c].awaiting \in resolved]_vars
    /\ [][resolved' # resolved => okReloads' = okReloads + 1]_vars

\* A call made after a failed reload is suspended on the closed gate
C8_Witness ==
    /\ lastReload.called
    /\ lastReload.error.code # "none"
    /\ contextPromise \notin resolved
    /\ \E c \in SuspendedCalls : calls[c].awaiting = contextPromise

\* C9: a reload that throws leaves the constructor registry and the bindings
\* as they were before it.
C9_FailedReloadKeepsRegistry ==
    [][FailedReloadStep =>
          constructors' = constructors /\ bindings' = bindings]_vars

\* C10: the assertion of line 174 never fails: whenever storage arrives the
\* registry holds a constructor for the identifier's kind.
C10_ConstructorNeverAbsent ==
    \A n \in StatePromises : statePromises[n].error # "assert"

\* C11: identifiers that differ in kind or in identifier string have distinct
\* keys of the form kind:id; calls for them get distinct statePromises, whose
\* storage was asked for under those distinct keys, and the table maps each
\* key to the statePromise of that key.
C11_DistinctKeys ==
    /\ \A a \in DurableObjectIds, b \in DurableObjectIds :
          a # b => KeyOf(a) # KeyOf(b)
    /\ \A n \in StatePromises :
          /\ statePromises[n].key
                = statePromises[n].id.objectName \o ":" \o statePromises[n].id.hex
          /\ storageCalls[n].key = statePromises[n].key
    /\ \A k \in DOMAIN objects : statePromises[objects[k]].key = k
    /\ \A c1 \in ReturnedCalls, c2 \in ReturnedCalls :
          calls[c1].id # calls[c2].id
          => /\ calls[c1].statePromise # calls[c2].statePromise
             /\ statePromises[calls[c1].statePromise].id = calls[c1].id
             /\ storageCalls[calls[c1].statePromise].key
                  # storageCalls[calls[c2].statePromise].key

\* Identifiers of two kinds with the same identifier string are both served,
\* by two instances, from two table entries
C11_Witness ==
    \E c1 \in ReturnedCalls, c2 \in ReturnedCalls :
        /\ calls[c1].id.objectName # calls[c2].id.objectName
        /\ calls[c1].id.hex = calls[c2].id.hex
        /\ calls[c1].statePromise \in Fulfilled
        /\ calls[c2].statePromise \in Fulfilled
        /\ Cardinality(DOMAIN objects) = 2

\* C12: beforeReload and dispose are the same step; each leaves the table
\* empty and the gate closed (a new pending promise that #contextResolve
\* resolves), from any state and also when repeated, and each can always run.
C12_CloseIsRepeatable ==
    /\ [][(beforeReload \/ dispose) =>
            /\ DOMAIN objects' = {}
            /\ contextPromise' \notin resolved'
            /\ contextPromise' # contextPromise
            /\ contextResolve' = contextPromise']_vars
    /\ [][beforeReload <=> dispose]_vars
    /\ [](generation < MaxGenerations => ENABLED beforeReload /\ ENABLED dispose)

\* beforeReload/dispose ran twice in a row on a manager that never created an
\* instance and never reloaded
C12_Witness ==
    /\ generation = 2
    /\ ~lastReload.called
    /\ statePromises = <<>>
    /\ DOMAIN objects = {}
    /\ contextPromise \notin resolved

\* C13: dispose resolves no promise and leaves every suspended call where it
\* is; a call suspended on a pending promise cannot continue, and a promise
\* becomes resolved only in a reload that returns normally.
C13_DisposeKeepsCallersSuspended ==
    /\ [][dispose =>
            /\ resolved' = resolved
            /\ \A c \in SuspendedCalls : calls'[c] = calls[c]]_vars
    /\ [](\A c \in SuspendedCalls :
            calls[c].awaiting \notin resolved => ~ENABLED getObject_resume(c))
    /\ [][resolved' \subseteq resolved \/ okReloads' = okReloads + 1]_vars

\* A call was suspended on a pending gate when dispose ran and is suspended
\* still
C13_Witness ==
    \E c \in SuspendedCalls :
        /\ calls[c].awaiting < contextPromise
        /\ calls[c].awaiting \notin resolved

\* C14: no construction is started while the current gate is closed: whenever
\* a getObject call registers a table entry or calls storage.storage, the
\* promise held in #contextPromise is resolved.
C14_NoConstructionWhileClosed ==
    [][(Len(storageCalls') > Len(storageCalls)
          \/ ~(DOMAIN objects' \subseteq DOMAIN objects))
       => contextPromise \in resolved]_vars

\* The builds of the concurrency specification with which reload returns
\* normally, and the registry each of them installs
CompleteBuilds ==
    {inp \in MainReloadInputs :
        reloadLoop(processedObjects, 1, EmptyMap, inp.moduleExports,
                   inp.mainScriptPath).error = NoError}

RegistryOf(inp) ==
    reloadLoop(processedObjects, 1, EmptyMap, inp.moduleExports,
               inp.mainScriptPath).constructors

\* C15: every instance was constructed with a constructor and bindings that
\* one successful reload installed together, that is, the pair of one
\* complete build (only a complete build makes reload return normally).
C15_NoMixedConfiguration ==
    \A n \in Fulfilled :
        \E inp \in CompleteBuilds :
            /\ statePromises[n].constructor
                 = RegistryOf(inp)[statePromises[n].id.objectName]
            /\ statePromises[n].bindings = inp.bindings

\* C16: a reload that returns normally leaves a registry whose domain is
\* exactly the configured kinds, each mapped to the value its resolved script
\* exports under its className, leaves the bindings argument in #bindings,
\* and leaves the gate open on that registry and those bindings.
C16_SuccessfulReloadInstalls ==
    [][okReloads' = okReloads + 1 =>
        /\ lastReload'.called /\ lastReload'.error = NoError
        /\ DOMAIN constructors'
             = {processedObjects[i].name : i \in DOMAIN processedObjects}
        /\ \A i \in DOMAIN processedObjects :
              /\ Truthy(lastReload'.exported[i])
              /\ constructors'[processedObjects[i].name] = lastReload'.exported[i]
        /\ bindings' = lastReload'.newBindings
        /\ contextPromise' = contextPromise
        /\ contextPromise' \in resolved']_vars

\* A successful reload of two kinds, one on the main script and one on its
\* own script, that replaced the bindings of an earlier successful reload
C16_Witness ==
    /\ okReloads = 2
    /\ lastReload.called /\ lastReload.error = NoError
    /\ Len(processedObjects) = 2
    /\ \E i, j \in DOMAIN processedObjects :
          /\ processedObjects[i].scriptPath = Undefined
          /\ processedObjects[j].scriptPath # Undefined
    /\ lastReload.exported = <<"C2", "D1">>
    /\ constructors = [A |-> "C2", B |-> "D1"]
    /\ bindings = "env2" /\ lastReload.newBindings = "env2"
    /\ contextPromise \in resolved

\* The getObject calls that share statePromise n: they returned it
SharersOf(n) == {c \in ReturnedCalls : calls[c].statePromise = n}

\* C17: a statePromise rejected by storage.storage is the result of the call
\* that started it and of every call for the same identifier that joined it
\* while it was registered, and of no call for another identifier.
C17_FailureReachesExactlySharers ==
    \A n \in StatePromises :
        statePromises[n].error = "storage" =>
            /\ \E c \in SharersOf(n) : calls[c].started
            /\ \A c \in SharersOf(n) : calls[c].id = statePromises[n].id
            /\ \A c \in ReturnedCalls :
                  /\ calls[c].id = statePromises[n].id
                  /\ calls[c].lookupGeneration = statePromises[n].createdGeneration
                  => calls[c].statePromise = n
            /\ \A c \in ReturnedCalls :
                  calls[c].id # statePromises[n].id => calls[c].statePromise # n

\* A rejected statePromise shared by the call that started it and a call that
\* joined it
C17_Witness ==
    \E n \in StatePromises :
        /\ statePromises[n].error = "storage"
        /\ \E c1, c2 \in SharersOf(n) :
              c1 # c2 /\ calls[c1].started /\ ~calls[c2].started

Pending == {n \in StatePromises : statePromises[n].state = "pending"}

\* C18: calls for different identifiers do not wait for one another. A call
\* released by the gate can always resume, whatever is pending for other
\* identifiers; a construction whose storage has arrived can always complete,
\* whatever other constructions are still pending; and the completion of one
\* construction leaves every other construction as it was.
C18_IdentifiersIndependent ==
    /\ [](\A c \in SuspendedCalls :
            calls[c].awaiting \in resolved => ENABLED getObject_resume(c))
    /\ [](\A n \in Pending : ENABLED storage_fulfil(n))
    /\ [][\A n \in Pending :
            statePromises'[n] # statePromises[n] =>
                \A m \in StatePromises \ {n} : statePromises'[m] = statePromises[m]]_vars

\* With the gate open, the construction for B:1 has completed while the
\* construction for A:1, started before it, is still pending
C18_Witness ==
    /\ contextPromise \in resolved
    /\ \E m, n \in StatePromises :
          /\ m < n
          /\ statePromises[m].id.objectName = "A"
          /\ statePromises[m].state = "pending"
          /\ statePromises[n].id.objectName = "B"
          /\ statePromises[n].state = "fulfilled"
          /\ \E c \in ReturnedCalls : calls[c].statePromise = n

\* The steps of getObject, from the call to the settling of its construction
getObjectStep ==
    \/ \E id \in DurableObjectIds : getObject_call(id)
    \/ \E c \in 1..MaxCalls : getObject_resume(c)
    \/ \E n \in 1..MaxCalls : storage_fulfil(n)
    \/ \E n \in 1..MaxCalls : storage_reject(n)

reloadStep ==
    \E inp \in MainReloadInputs :
        reload(inp.moduleExports, inp.bindings, inp.mainScriptPath)

\* C19: getObject and getNamespace leave the gate, the registry and the
\* bindings as they are, and getNamespace leaves everything as it is;
\* beforeReload and dispose leave the registry and the bindings as they are;
\* reload leaves the instance table and the constructions as they are.
C19_Frames ==
    /\ [][getObjectStep =>
            UNCHANGED <<contextPromise, contextResolve, resolved,
                        constructors, bindings>>]_vars
    /\ [][(\E o \in {"A", "B"} : getNamespace(o)) => UNCHANGED vars]_vars
    /\ [][(beforeReload \/ dispose) => UNCHANGED <<constructors, bindings>>]_vars
    /\ [][reloadStep => UNCHANGED <<objects, statePromises, calls>>]_vars

\* An instance built from the first build is still in the table, and was
\* handed to a second call, after a second successful reload replaced the
\* registry and the bindings without a beforeReload in between
C19_Witness ==
    /\ generation = 0
    /\ okReloads = 2
    /\ constructors = [A |-> "C2", B |-> "D2"]
    /\ bindings = "env2"
    /\ \E n \in Fulfilled :
          /\ statePromises[n].constructor = "C1"
          /\ statePromises[n].bindings = "env1"
          /\ KeyOf(statePromises[n].id) \in DOMAIN objects
          /\ objects[KeyOf(statePromises[n].id)] = n
          /\ \E c \in ReturnedCalls : ~calls[c].started /\ calls[c].statePromise = n

====
